---- MODULE Spec2Model ----
(***************************************************************************)
(* Model of the two pieces of logic of the UDM2 notebook                   *)
(* (jupyter-notebooks/udm2/udm2.ipynb):                                    *)
(*   - the classified-band colour normaliser _ClassNormalize and its user  *)
(*     imshow_class_band;                                                  *)
(*   - the legacy unusable-data-mask decoder get_udm_labels.get_label.     *)
(*                                                                         *)
(* Numbers held by arrays and mappings are exact rationals <<n, d>> in     *)
(* lowest terms with d > 0.  An array is a record [dtype, data] whose data *)
(* is a sequence of rows of cells [v, mask]; mask = TRUE is a masked       *)
(* (invalid) entry of a numpy masked array, v its underlying value.        *)
(***************************************************************************)
EXTENDS Integers, Sequences, FiniteSets, TLC

VARIABLES class_band, class_norm, op, arry, new_arry, caller_arry,
          class_labels, legend, color_mapping, udm_labels, raised, v, label,
          udm2, percent_clear, green, nir, ndwi

\* the classified-band renderer and the labels of its band
rendererVars == <<class_band, class_norm, arry, new_arry, caller_arry,
                  class_labels, legend, color_mapping, udm_labels>>

\* get_label applied to one value
labelVars == <<v, label>>

\* the share of clear pixels of a UDM2
clearVars == <<udm2, percent_clear>>

\* the water index of a pixel
ndwiVars == <<green, nir, ndwi>>

vars == <<rendererVars, labelVars, clearVars, ndwiVars, op, raised>>

(***************************************************************************)
(* Bounds of the model.                                                    *)
(***************************************************************************)
\* largest number of pixels (rows * columns) of a generated band
MaxPixels == 3

\* how far below 0 and above 255 the integers given to get_label reach
MaxExcess == 300

\* largest number of pixels of the clear band of a UDM2
MaxClearPixels == 4

None == "None"

\* an optional argument: None, or a dict as the sequence of its items
NoneValue == [none |-> TRUE, items |-> <<>>]
Dict(items) == [none |-> FALSE, items |-> items]

(***************************************************************************)
(* Exact arithmetic.                                                       *)
(***************************************************************************)
Abs(n) == IF n < 0 THEN -n ELSE n

RECURSIVE GCD(_, _)
GCD(a, b) == IF b = 0 THEN a ELSE GCD(b, a % b)

RECURSIVE Pow2(_)
Pow2(n) == IF n = 0 THEN 1 ELSE 2 * Pow2(n - 1)

\* the rational n/d (d > 0) in lowest terms
Rat(n, d) == LET g == GCD(Abs(n), d) IN <<n \div g, d \div g>>

Whole(n) == <<n, 1>>

Less(p, q) == p[1] * q[2] < q[1] * p[2]

IsIntegral(q) == q[2] = 1

\* numpy rounds to the nearest integer, ties to the even one
RoundHalfEven(q) ==
    LET f == q[1] \div q[2]
        r == q[1] - f * q[2]
    IN  IF 2 * r < q[2] THEN Whole(f)
        ELSE IF 2 * r > q[2] THEN Whole(f + 1)
        ELSE IF f % 2 = 0 THEN Whole(f) ELSE Whole(f + 1)

\* a float stored into an integer array is truncated towards zero
Truncate(q) ==
    IF q[1] >= 0 THEN Whole(q[1] \div q[2]) ELSE Whole(-((-q[1]) \div q[2]))

RECURSIVE Log2Floor(_, _)
\* the exponent e of the positive rational n/d: 2^e <= n/d < 2^(e+1)
Log2Floor(n, d) ==
    IF n >= 2 * d THEN Log2Floor(n, 2 * d) + 1
    ELSE IF n < d THEN Log2Floor(2 * n, d) - 1
    ELSE 0

\* the nearest half-precision float (11 significant bits, exponents from
\* -14 on, ties to the even significand) of a rational of magnitude below
\* 65520, which is what a float stored into a float16 array becomes
Float16(q) ==
    IF q[1] = 0 THEN q
    ELSE LET a == Abs(q[1])
             e == Log2Floor(a, q[2])
             s == (IF e < -14 THEN -14 ELSE e) - 10
             scaled == IF s >= 0 THEN Rat(a, q[2] * Pow2(s))
                       ELSE Rat(a * Pow2(-s), q[2])
             m == RoundHalfEven(scaled)[1]
             mag == IF s >= 0 THEN Whole(m * Pow2(s)) ELSE Rat(m, Pow2(-s))
         IN  IF q[1] < 0 THEN <<-mag[1], mag[2]>> ELSE mag

(***************************************************************************)
(* Arrays.                                                                 *)
(***************************************************************************)
Cell(val, m) == [v |-> val, mask |-> m]

\* the largest value of the element type of the integer bands, which are
\* bands of bytes like the bands of the UDM2
IntMax == Pow2(8) - 1

\* the cells a generated band of each element type is made of
IntCells == {Cell(Whole(0), FALSE), Cell(Whole(1), FALSE), Cell(Whole(5), FALSE),
             Cell(Whole(1), TRUE), Cell(Whole(2), TRUE)}

BoolCells == {Cell(Whole(0), FALSE), Cell(Whole(1), FALSE), Cell(Whole(1), TRUE)}

FloatCells == {Cell(Whole(0), FALSE), Cell(Rat(1, 2), FALSE),
               Cell(Rat(3, 4), FALSE), Cell(Whole(1), FALSE),
               Cell(Rat(5, 2), TRUE)}

CellsOf(dtype) ==
    IF dtype = "int" THEN IntCells
    ELSE IF dtype = "bool" THEN BoolCells ELSE FloatCells

DTypes == {"int", "bool", "float"}

Shapes == {s \in (1..MaxPixels) \X (1..MaxPixels) : s[1] * s[2] <= MaxPixels}

Array(dtype, data) == [dtype |-> dtype, data |-> data]

GeneratedBands ==
    UNION {UNION {{Array(d, rows) : rows \in [1..s[1] -> [1..s[2] -> CellsOf(d)]]}
                  : s \in Shapes} : d \in DTypes}

IntRow(s) == [j \in 1..Len(s) |-> Cell(Whole(s[j]), FALSE)]

\* test_classified_band = np.array(range(9)).reshape((3,3))
test_classified_band ==
    Array("int", <<IntRow(<<0, 1, 2>>), IntRow(<<3, 4, 5>>), IntRow(<<6, 7, 8>>)>>)

\* a masked band of bytes holding the largest byte on both sides of a masked
\* entry: np.ma.array([[255, 2, 255, 0, 1]], mask=[[0, 1, 0, 0, 0]])
MaskedByteBand ==
    Array("int", <<<<Cell(Whole(IntMax), FALSE), Cell(Whole(2), TRUE),
                     Cell(Whole(IntMax), FALSE), Cell(Whole(0), FALSE),
                     Cell(Whole(1), FALSE)>>>>)

\* the bands of the worked examples: [[0,1,5],[5,1,0]] and [[0,0],[0,0]],
\* as integer arrays and as float arrays holding the same values
ExampleBands ==
    {Array(d, <<IntRow(<<0, 1, 5>>), IntRow(<<5, 1, 0>>)>>) : d \in {"int", "float"}}
    \cup {Array(d, <<IntRow(<<0, 0>>), IntRow(<<0, 0>>)>>) : d \in {"int", "float"}}
    \cup {Array("float", <<IntRow(<<0, 1, 2>>)>>)}
    \cup {MaskedByteBand}

Bands == GeneratedBands \cup ExampleBands \cup {test_classified_band}

\* the arrays a normaliser is applied to besides the band it was built from
Probes == {b \in GeneratedBands : Len(b.data) = 1 /\ Len(b.data[1]) = 1}

Rows(a) == 1..Len(a.data)
Cols(a) == 1..Len(a.data[1])
Pixels(a) == Rows(a) \X Cols(a)
At(a, p) == a.data[p[1]][p[2]]

(***************************************************************************)
(* numpy                                                                   *)
(***************************************************************************)
RECURSIVE Flatten(_)
\* the entries of the rows, row after row
Flatten(rows) == IF rows = <<>> THEN <<>> ELSE rows[1] \o Flatten(Tail(rows))

\* the order np.sort puts masked entries in: a masked entry counts as the
\* largest value of the element type (True in a boolean array, IntMax in an
\* integer array, nan in a float array), so a valid entry sorts before it
\* unless it holds that value itself
SortsBefore(c, d, dtype) ==
    /\ ~c.mask
    /\ IF d.mask
       THEN (IF dtype = "bool" THEN Less(c.v, Whole(1))
             ELSE IF dtype = "int" THEN Less(c.v, Whole(IntMax)) ELSE TRUE)
       ELSE Less(c.v, d.v)

\* c put into the sorted sequence s behind the entries it does not sort before
Insert(s, c, dtype) ==
    LET later == {i \in 1..Len(s) : SortsBefore(c, s[i], dtype)}
        k == IF later = {} THEN Len(s) + 1
             ELSE CHOOSE i \in later : \A j \in later : i <= j
    IN  SubSeq(s, 1, k - 1) \o <<c>> \o SubSeq(s, k, Len(s))

RECURSIVE Sorted(_, _)
\* the sequence sorted as numpy sorts an array of fewer than 17 entries (by
\* insertion): entries that tie stay in the order they had
Sorted(seq, dtype) ==
    IF seq = <<>> THEN <<>>
    ELSE Insert(Sorted(SubSeq(seq, 1, Len(seq) - 1), dtype), seq[Len(seq)], dtype)

\* c != d as np.unique compares neighbours: two entries of which one is
\* masked differ when only one of them is masked
Differ(c, d) == IF c.mask \/ d.mask THEN c.mask # d.mask ELSE c.v # d.v

RECURSIVE Runs(_, _)
\* the entries of the sorted sequence from the i-th on that differ from the
\* entry before them
Runs(aux, i) ==
    IF i > Len(aux) THEN <<>>
    ELSE (IF i = 1 \/ Differ(aux[i], aux[i - 1]) THEN <<aux[i]>> ELSE <<>>)
         \o Runs(aux, i + 1)

\* np.unique(arry): the flattened array sorted, each entry that differs from
\* the entry before it kept. The valid values come out ascending and once
\* each, with one masked entry behind them, except in a boolean array, where
\* the valid True entries and the masked entries tie and keep their order,
\* and in an integer array holding the value IntMax, where the valid IntMax
\* entries and the masked entries tie in the same way
unique(a) == Runs(Sorted(Flatten(a.data), a.dtype), 1)

\* np.around(arry): integer arrays are returned as they are; a boolean
\* array becomes a half-precision float array (the type np.rint gives a
\* boolean array) and a float array an array of its own type, of rounded
\* values; the mask is kept and the underlying value of a masked entry is
\* rounded like any other
around(a) ==
    IF a.dtype = "int" THEN a
    ELSE Array(IF a.dtype = "bool" THEN "float16" ELSE a.dtype,
               [i \in Rows(a) |-> [j \in Cols(a) |->
                   Cell(RoundHalfEven(a.data[i][j].v), a.data[i][j].mask)]])

\* arry == k read from the underlying data, the mask ignored
Selected_data(a, k) == {p \in Pixels(a) : At(a, p).v = k}

\* the entries selected by the boolean index arry == k: a comparison of a
\* masked entry is masked and selects nothing
Selected(a, k) == {p \in Pixels(a) : ~At(a, p).mask /\ At(a, p).v = k}

\* the value an array of the given element type stores for x: an integer
\* array the truncated value, a half-precision array the nearest
\* half-precision float, a float array the value
Cast(x, dtype) ==
    IF dtype = "int" THEN Truncate(x)
    ELSE IF dtype = "float16" THEN Float16(x) ELSE x

\* new_arry[index] = x
SetItems(a, index, x) ==
    Array(a.dtype,
          [i \in Rows(a) |-> [j \in Cols(a) |->
              IF <<i, j>> \in index
              THEN Cell(Cast(x, a.dtype), a.data[i][j].mask)
              ELSE a.data[i][j]]])

(***************************************************************************)
(* _ClassNormalize                                                         *)
(***************************************************************************)
\* values = [v for v in np.unique(arry) if not isinstance(v, MaskedConstant)]
values(a) ==
    LET u == SelectSeq(unique(a), LAMBDA c : ~c.mask)
    IN  [i \in 1..Len(u) |-> u[i].v]

\* the points of the range 0-1 the n unique values are mapped to
color_ticks(n) ==
    IF n > 1 THEN [i \in 1..n |-> Rat(i - 1, n - 1)] ELSE <<Whole(0)>>

Min(a, b) == IF a < b THEN a ELSE b

\* dict(zip(keys, ticks)) as the sequence of its items in insertion order:
\* a key given twice has one item, where it was first inserted, with the
\* value given last
DictZip(keys, ticks) ==
    LET n == Min(Len(keys), Len(ticks))
        first == SelectSeq([i \in 1..n |-> i],
                           LAMBDA i : \A j \in 1..(i - 1) : keys[j] # keys[i])
        last(k) == CHOOSE j \in 1..n :
                       keys[j] = k /\ \A l \in (j + 1)..n : keys[l] # k
    IN  [i \in 1..Len(first) |->
            [k |-> keys[first[i]], v |-> ticks[last(keys[first[i]])]]]

\* _ClassNormalize.__init__: the instance, with the mapping and the fields
\* the base class Normalize is initialised with
ClassNormalize_init(a) ==
    LET vals == values(a)
    IN  [_mapping |-> DictZip(vals, color_ticks(Len(vals))),
         vmin |-> 0, vmax |-> 1, clip |-> FALSE]

RECURSIVE Replace_chained(_, _, _, _)
\* the loop comparing the array being filled, last item first
Replace_chained(new, a, items, n) ==
    IF n = 0 THEN new
    ELSE Replace_chained(SetItems(new, Selected(new, items[n].k), items[n].v),
                         a, items, n - 1)

RECURSIVE Replace(_, _, _, _)
\* the loop of __call__ over the first n items of the mapping
Replace(new, a, items, n) ==
    IF n = 0 THEN new
    ELSE SetItems(Replace(new, a, items, n - 1), Selected(a, items[n].k),
                  items[n].v)

\* __call__ filling a zeroed array instead of a copy of the rounded one
ClassNormalize_call_zeros(self, a) ==
    LET rounded == around(a)
        zeros == Array(rounded.dtype,
                       [i \in Rows(a) |-> [j \in Cols(a) |->
                           Cell(Whole(0), rounded.data[i][j].mask)]])
    IN  Replace(zeros, rounded, self._mapping, Len(self._mapping))

\* np.around writing the rounded values into its argument
np_around_in_place(h, id) ==
    [heap |-> [h EXCEPT ![id] = around(h[id])], ref |-> id]

\* np.around on the array object id of the heap h: the result is a new object
np_around(h, id) == [heap |-> Append(h, around(h[id])), ref |-> Len(h) + 1]

\* arry.copy(): a new object with the same entries
ndarray_copy(h, id) == [heap |-> Append(h, h[id]), ref |-> Len(h) + 1]

\* np.unique on the array object id: it flattens into a new object, sorts
\* that one in place and returns the unique entries
np_unique(h, id) ==
    [heap |-> Append(h, Array(h[id].dtype,
                              <<Sorted(Flatten(h[id].data), h[id].dtype)>>)),
     value |-> unique(h[id])]

\* _ClassNormalize.__call__ on the array object id of the heap h: the heap
\* after the call and the object returned
ClassNormalize_call_heap(self, h, id) ==
    LET rounded == np_around(h, id)
        copy == ndarray_copy(rounded.heap, rounded.ref)
        filled == Replace(copy.heap[copy.ref], copy.heap[rounded.ref],
                          self._mapping, Len(self._mapping))
    IN  [heap |-> [copy.heap EXCEPT ![copy.ref] = filled], ref |-> copy.ref]

\* _ClassNormalize.__call__: the array returned
ClassNormalize_call(self, a) ==
    LET r == ClassNormalize_call_heap(self, <<a>>, 1)
    IN  r.heap[r.ref]

\* the caller's array after class_norm(a)
ArgAfterCall(self, a) == ClassNormalize_call_heap(self, <<a>>, 1).heap[1]

\* the caller's array after _ClassNormalize(a) and after get_udm_labels(a),
\* which both read it through np.unique only
ArgAfterUnique(a) == np_unique(<<a>>, 1).heap[1]

Keys(mapping) == {mapping[i].k : i \in 1..Len(mapping)}

\* mapping[k], for a key of the mapping
Lookup(mapping, k) ==
    mapping[CHOOSE i \in 1..Len(mapping) : mapping[i].k = k].v

(***************************************************************************)
(* imshow_class_band                                                       *)
(***************************************************************************)
\* mask_class_labels = {0: 'unmasked', 1: 'masked'}
mask_class_labels ==
    Dict(<<[k |-> Whole(0), label |-> "unmasked"],
           [k |-> Whole(1), label |-> "masked"]>>)

\* the class_labels arguments of the notebook's calls
ClassLabels == {NoneValue, mask_class_labels}

\* an except clause that catches nothing
Caught_nothing == {}

\* the except clause of imshow_class_band catches these exceptions only
Caught == {"AttributeError"}

\* the try block: the legend's (colour position, label) entries; a label
\* key that is no key of the mapping makes the lookup raise KeyError, and
\* class_labels = None makes class_labels.keys() raise AttributeError
Legend(mapping, labels) ==
    IF labels.none THEN [raised |-> "AttributeError", legend |-> <<>>]
    ELSE IF \E i \in 1..Len(labels.items) : labels.items[i].k \notin Keys(mapping)
    THEN [raised |-> "KeyError", legend |-> <<>>]
    ELSE [raised |-> None,
          legend |-> [i \in 1..Len(labels.items) |->
                         [color |-> Lookup(mapping, labels.items[i].k),
                          label |-> labels.items[i].label]]]

\* imshow_class_band: the normaliser, the image ax.imshow registers (the
\* band with the normaliser, which is not called here) and the legend
imshow_class_band(band, labels) ==
    LET norm == ClassNormalize_init(band)
        try == Legend(norm._mapping, labels)
    IN  [class_norm |-> norm,
         im |-> [data |-> band, norm |-> norm],
         legend |-> try.legend,
         raised |-> IF try.raised \in Caught THEN None ELSE try.raised]

\* the class_labels visualize_udm2 gives for a band: each unique value
\* labelled by itself, none when the band has five unique values or more
visualize_udm2_labels(band) ==
    LET u == unique(band)
    IN  IF Len(u) < 5
        THEN Dict([i \in 1..Len(u) |-> [k |-> u[i].v, label |-> u[i].v]])
        ELSE NoneValue

(***************************************************************************)
(* get_udm_labels.get_label                                                *)
(***************************************************************************)
RECURSIVE int2(_)
\* int(digits, 2): the number a sequence of binary digits denotes
int2(digits) ==
    IF digits = <<>> THEN 0
    ELSE 2 * int2(SubSeq(digits, 1, Len(digits) - 1)) + digits[Len(digits)]

RECURSIVE BitAnd(_, _)
\* a & b for b >= 0 (a negative a is in two's complement, as in Python)
BitAnd(a, b) ==
    IF b = 0 THEN 0
    ELSE (a % 2) * (b % 2) + 2 * BitAnd(a \div 2, b \div 2)

RECURSIVE join(_, _)
\* sep.join(strings)
join(sep, strings) ==
    IF strings = <<>> THEN ""
    ELSE IF Len(strings) = 1 THEN strings[1]
    ELSE strings[1] \o sep \o join(sep, Tail(strings))

RECURSIVE Binary(_, _)
\* the binary digits of n >= 0, zero-padded to at least width digits
Binary(n, width) ==
    IF n = 0 /\ width <= 0 THEN ""
    ELSE Binary(n \div 2, width - 1) \o (IF n % 2 = 1 THEN "1" ELSE "0")

\* '{0:08b}'.format(n)
format_08b(n) == IF n < 0 THEN "-" \o Binary(-n, 7) ELSE Binary(n, 8)

\* the tests with the names of the first two channels exchanged
BandTests_swapped ==
    <<[mask |-> int2(<<1, 0, 0>>), name |-> "Green"],
      [mask |-> int2(<<1, 0, 0, 0>>), name |-> "Blue"],
      [mask |-> int2(<<1, 0, 0, 0, 0>>), name |-> "Red"],
      [mask |-> int2(<<1, 0, 0, 0, 0, 0>>), name |-> "Red-Edge"],
      [mask |-> int2(<<1, 0, 0, 0, 0, 0, 0>>), name |-> "NIR"],
      [mask |-> int2(<<1, 0, 0, 0, 0, 0, 0, 0>>),
       name |-> "Coastal Blue/Green I/Yellow"]>>

\* the tests of the bits 2..7 of get_label, in the order of the code
BandTests ==
    <<[mask |-> int2(<<1, 0, 0>>), name |-> "Blue"],
      [mask |-> int2(<<1, 0, 0, 0>>), name |-> "Green"],
      [mask |-> int2(<<1, 0, 0, 0, 0>>), name |-> "Red"],
      [mask |-> int2(<<1, 0, 0, 0, 0, 0>>), name |-> "Red-Edge"],
      [mask |-> int2(<<1, 0, 0, 0, 0, 0, 0>>), name |-> "NIR"],
      [mask |-> int2(<<1, 0, 0, 0, 0, 0, 0, 0>>),
       name |-> "Coastal Blue/Green I/Yellow"]>>

\* the guard without bit 2
AnyBandMask_no_blue == int2(<<1, 1, 1, 1, 1, 0, 0, 0>>)

\* the mask that guards the tests of the bits 2..7
AnyBandMask == int2(<<1, 1, 1, 1, 1, 1, 0, 0>>)

RECURSIVE append_bands(_, _, _)
\* bands after the first n tests of BandTests
append_bands(x, tests, n) ==
    IF n = 0 THEN <<>>
    ELSE append_bands(x, tests, n - 1)
         \o (IF BitAnd(x, tests[n].mask) # 0 THEN <<tests[n].name>> ELSE <<>>)

\* the list labels of get_label before its fallback: 'cloud' for bit 1, then
\* one 'missing/suspect ... data' entry when any of the bits 2..7 is set
labels_of(x) ==
    LET cloud == IF BitAnd(x, int2(<<1, 0>>)) # 0 THEN <<"cloud">> ELSE <<>>
        bands == append_bands(x, BandTests, Len(BandTests))
        suspect == IF BitAnd(x, AnyBandMask) # 0
                   THEN <<"missing/suspect " \o join(", ", bands) \o " data">>
                   ELSE <<>>
    IN  cloud \o suspect

\* get_label reducing its argument to a byte first
get_label_low_byte(x) ==
    LET b == x % 256
    IN  IF b = 0 THEN "clear"
        ELSE IF b = 1 THEN "blackfill"
        ELSE join(" + ", IF Len(labels_of(b)) = 0 THEN <<format_08b(b)>>
                         ELSE labels_of(b))

\* get_label(x)
get_label(x) ==
    IF x = 0 THEN "clear"
    ELSE IF x = 1 THEN "blackfill"
    ELSE join(" + ", IF Len(labels_of(x)) = 0 THEN <<format_08b(x)>>
                     ELSE labels_of(x))

\* the values of a pixel of the unusable data mask band (8 bits, unsigned)
Bytes == 0..255

RECURSIVE FirstSeen(_)
\* the distinct elements of a sequence in the order of their first occurrence
FirstSeen(seq) ==
    IF seq = <<>> THEN <<>>
    ELSE LET init == FirstSeen(SubSeq(seq, 1, Len(seq) - 1))
             last == seq[Len(seq)]
         IN  IF \E i \in 1..Len(init) : init[i] = last THEN init
             ELSE Append(init, last)

\* get_udm_labels iterating over the pixels instead of np.unique(udm)
get_udm_labels_by_pixel(udm) ==
    LET u == FirstSeen(Flatten(udm.data))
    IN  Dict([i \in 1..Len(u) |-> [k |-> u[i].v, label |-> get_label(u[i].v[1])]])

\* get_udm_labels(udm): OrderedDict((v, get_label(v)) for v in np.unique(udm))
get_udm_labels(udm) ==
    LET u == unique(udm)
    IN  Dict([i \in 1..Len(u) |-> [k |-> u[i].v, label |-> get_label(u[i].v[1])]])

\* a band as rasterio reads the unusable data mask: integers, nothing masked
IsUdmBand(a) == a.dtype = "int" /\ \A p \in Pixels(a) : ~At(a, p).mask

(***************************************************************************)
(* percent_clear                                                           *)
(***************************************************************************)
\* np.size(a)
np_size(a) == Cardinality(Pixels(a))

\* np.count_nonzero(a)
np_count_nonzero(a) == Cardinality({p \in Pixels(a) : At(a, p).v # Whole(0)})

\* the cell that computes percent_clear from the first band of the UDM2
PercentClear(u) ==
    LET num_pixels == np_size(u[1])
        num_clear == np_count_nonzero(u[1])
    IN  Rat(100 * (num_pixels - num_clear), num_pixels)

\* the first (clear) bands of the UDM2 arrays: 1 is clear, 0 is not
ClearBands ==
    UNION {{Array("int", rows) :
               rows \in [1..s[1] -> [1..s[2] ->
                            {Cell(Whole(0), FALSE), Cell(Whole(1), FALSE)}]]}
           : s \in {t \in (1..MaxClearPixels) \X (1..MaxClearPixels) :
                       t[1] * t[2] <= MaxClearPixels}}

(***************************************************************************)
(* ndwi                                                                    *)
(***************************************************************************)
\* the number of values of an element of the raster (16 bits, unsigned)
UIntModulus == Pow2(16)

\* the pixel values the index is computed for
UIntSamples == {0, 1, 2, 1000, 30000, 32768, 35536, 40000, 65534, 65535}

\* a float, or what a division by zero gives with the errors ignored
Float(q) == [kind |-> "finite", val |-> q]
NotFinite(kind) == [kind |-> kind, val |-> Whole(0)]

\* x / d for a float x and an integer d, divide and invalid errors ignored
np_divide(x, d) ==
    IF d # 0 THEN Float(Rat(x[1], x[2] * d))
    ELSE IF x[1] = 0 THEN NotFinite("nan")
    ELSE IF x[1] > 0 THEN NotFinite("inf") ELSE NotFinite("-inf")

\* (green.astype(float) - nir.astype(float)) / (green + nir) for one pixel:
\* the sum is taken in the raster's unsigned integer type and wraps around
Ndwi(g, n) == np_divide(Whole(g - n), (g + n) % UIntModulus)

(***************************************************************************)
(* The notebook as a state machine.                                        *)
(***************************************************************************)
\* the class_labels given to imshow_class_band for a band: none, the mask
\* labels, or the labels get_udm_labels gives for the band
ClassLabelsFor(band) ==
    ClassLabels \cup (IF IsUdmBand(band) THEN {get_udm_labels(band)} ELSE {})

\* no _ClassNormalize instance has been created yet
NoInstance == [none |-> TRUE]

RendererIdle ==
    /\ class_band = None
    /\ class_norm = NoInstance
    /\ arry = None
    /\ new_arry = None
    /\ caller_arry = None
    /\ class_labels = NoneValue
    /\ legend = <<>>
    /\ color_mapping = None
    /\ udm_labels = None

LabelIdle == v = None /\ label = None

ClearIdle == udm2 = None /\ percent_clear = None

NdwiIdle == green = None /\ nir = None /\ ndwi = None

Init ==
    /\ class_band \in Bands
    /\ class_norm = NoInstance
    /\ op = "start"
    /\ arry = None
    /\ new_arry = None
    /\ caller_arry = None
    /\ class_labels = NoneValue
    /\ legend = <<>>
    /\ color_mapping = None
    /\ udm_labels = None
    /\ raised = None
    /\ LabelIdle
    /\ ClearIdle
    /\ NdwiIdle

\* what the operations of the renderer leave alone
OtherVars == <<class_band, labelVars, clearVars, ndwiVars>>

\* class_norm = _ClassNormalize(class_band)
Construct ==
    /\ class_norm' = ClassNormalize_init(class_band)
    /\ op' = "init"
    /\ arry' = class_band
    /\ caller_arry' = ArgAfterUnique(class_band)
    /\ new_arry' = None
    /\ class_labels' = NoneValue
    /\ legend' = <<>>
    /\ color_mapping' = None
    /\ udm_labels' = None
    /\ raised' = None
    /\ UNCHANGED OtherVars

\* class_norm(a) with a mapping updated from the array
Call_updating(a) ==
    /\ class_norm # NoInstance
    /\ op' = "call"
    /\ arry' = a
    /\ caller_arry' = ArgAfterCall(class_norm, a)
    /\ new_arry' = ClassNormalize_call(ClassNormalize_init(a), a)
    /\ class_norm' = ClassNormalize_init(a)
    /\ class_labels' = NoneValue
    /\ legend' = <<>>
    /\ color_mapping' = None
    /\ udm_labels' = None
    /\ raised' = None
    /\ UNCHANGED OtherVars

\* class_norm(a)
Call(a) ==
    /\ class_norm # NoInstance
    /\ op' = "call"
    /\ arry' = a
    /\ caller_arry' = ArgAfterCall(class_norm, a)
    /\ new_arry' = ClassNormalize_call(class_norm, a)
    /\ class_labels' = NoneValue
    /\ legend' = <<>>
    /\ color_mapping' = None
    /\ udm_labels' = None
    /\ raised' = None
    /\ UNCHANGED <<class_norm, OtherVars>>

\* color_mapping = class_norm.mapping
ReadMapping ==
    /\ class_norm # NoInstance
    /\ op' = "mapping"
    /\ color_mapping' = class_norm._mapping
    /\ arry' = None
    /\ caller_arry' = None
    /\ new_arry' = None
    /\ class_labels' = NoneValue
    /\ legend' = <<>>
    /\ udm_labels' = None
    /\ raised' = None
    /\ UNCHANGED <<class_norm, OtherVars>>

\* imshow_class_band(ax, class_band, class_labels=labels)
Imshow(labels) ==
    LET r == imshow_class_band(class_band, labels)
    IN  /\ class_norm' = r.class_norm
        /\ op' = "imshow"
        /\ arry' = r.im.data
        /\ caller_arry' = ArgAfterUnique(class_band)
        /\ new_arry' = None
        /\ class_labels' = labels
        /\ legend' = r.legend
        /\ color_mapping' = None
        /\ udm_labels' = None
        /\ raised' = r.raised
        /\ UNCHANGED OtherVars

\* visualize_udm2 showing one band of the mask
VisualizeUdm2 ==
    /\ IsUdmBand(class_band)
    /\ Imshow(visualize_udm2_labels(class_band))

\* get_udm_labels(class_band), for a band of the unusable data mask
GetUdmLabels ==
    /\ IsUdmBand(class_band)
    /\ op' = "get_udm_labels"
    /\ udm_labels' = get_udm_labels(class_band)
    /\ arry' = class_band
    /\ caller_arry' = ArgAfterUnique(class_band)
    /\ new_arry' = None
    /\ class_labels' = NoneValue
    /\ legend' = <<>>
    /\ color_mapping' = None
    /\ raised' = None
    /\ UNCHANGED <<class_norm, OtherVars>>

Next ==
    \/ Construct
    \/ \E a \in {class_band} \cup Probes : Call(a)
    \/ ReadMapping
    \/ \E labels \in ClassLabelsFor(class_band) : Imshow(labels)
    \/ VisualizeUdm2
    \/ GetUdmLabels

Spec == Init /\ [][Next]_vars

(***************************************************************************)
(* The decoder applied to a pixel value.                                   *)
(***************************************************************************)
InitUdm ==
    /\ v \in Bytes
    /\ label = None
    /\ op = "start"
    /\ raised = None
    /\ RendererIdle
    /\ ClearIdle
    /\ NdwiIdle

\* label = get_label(v)
GetLabel ==
    /\ op = "start"
    /\ label' = get_label(v)
    /\ op' = "get_label"
    /\ UNCHANGED <<v, rendererVars, clearVars, ndwiVars, raised>>

NextUdm == GetLabel

SpecUdm == InitUdm /\ [][NextUdm]_vars

\* the integers outside the range of a byte that get_label is applied to
OutOfRange == ((-MaxExcess)..(-1)) \cup (256..(255 + MaxExcess))

\* get_label called with an integer that is no byte
InitUdmAny ==
    /\ v \in OutOfRange
    /\ label = None
    /\ op = "start"
    /\ raised = None
    /\ RendererIdle
    /\ ClearIdle
    /\ NdwiIdle

SpecUdmAny == InitUdmAny /\ [][NextUdm]_vars

(***************************************************************************)
(* The share of clear pixels of a loaded UDM2.                             *)
(***************************************************************************)
InitClear ==
    /\ udm2 \in {<<b>> : b \in ClearBands}
    /\ percent_clear = None
    /\ op = "start"
    /\ raised = None
    /\ RendererIdle
    /\ LabelIdle
    /\ NdwiIdle

\* the cell that computes and prints percent_clear
ComputePercentClear ==
    /\ op = "start"
    /\ percent_clear' = PercentClear(udm2)
    /\ op' = "percent_clear"
    /\ UNCHANGED <<udm2, rendererVars, labelVars, ndwiVars, raised>>

NextClear == ComputePercentClear

SpecClear == InitClear /\ [][NextClear]_vars

(***************************************************************************)
(* The water index of a pixel.                                             *)
(***************************************************************************)
InitNdwi ==
    /\ green \in UIntSamples
    /\ nir \in UIntSamples
    /\ ndwi = None
    /\ op = "start"
    /\ raised = None
    /\ RendererIdle
    /\ LabelIdle
    /\ ClearIdle

\* the cell that computes ndwi
ComputeNdwi ==
    /\ op = "start"
    /\ ndwi' = Ndwi(green, nir)
    /\ op' = "ndwi"
    /\ UNCHANGED <<green, nir, rendererVars, labelVars, clearVars, raised>>

NextNdwi == ComputeNdwi

SpecNdwi == InitNdwi /\ [][NextNdwi]_vars

(***************************************************************************)
(* Properties of the classified-band normaliser.                           *)
(***************************************************************************)
\* the distinct values of the valid (unmasked) entries of an array
ValidValues(a) == {At(a, p).v : p \in {q \in Pixels(a) : ~At(a, q).mask}}

\* the class codes of a band of integral values
HasClassCodes(a) == \A x \in ValidValues(a) : IsIntegral(x)

\* the class codes the specification forms: the rounded valid values
RoundedCodes(a) == {RoundHalfEven(x) : x \in ValidValues(a)}

\* an instance exists and was built from class_band
Built == op \in {"init", "call", "imshow"}

\* the last operation normalised the band the mapping was built from
NormalizedSameBand == op = "call" /\ arry = class_band

SameShape(a, b) == Rows(a) = Rows(b) /\ Cols(a) = Cols(b)

\* C1: for a band with N >= 2 distinct valid class codes the mapping has
\* exactly those codes as keys, in ascending order, and the code with i
\* smaller codes below it (i = 0..N-1) has the position i/(N-1).
C1_EvenlySpacedPositions ==
    (Built /\ HasClassCodes(class_band) /\ Cardinality(ValidValues(class_band)) >= 2)
    => LET codes == ValidValues(class_band)
           N == Cardinality(codes)
           m == class_norm._mapping
       IN  /\ Len(m) = N
           /\ Keys(m) = codes
           /\ \A i \in 1..N :
                 /\ m[i].v = Rat(Cardinality({c \in codes : Less(c, m[i].k)}), N - 1)
                 /\ m[i].v = Rat(i - 1, N - 1)
           /\ \A i \in 1..(N - 1) : Less(m[i].k, m[i + 1].k) /\ Less(m[i].v, m[i + 1].v)

\* C2: building the mapping from a band of valid class codes, of any element
\* type, and normalising that band gives an array of the same shape in which
\* every entry is the mapped position of the pixel's code.
C2_NormalizedIsPosition ==
    (NormalizedSameBand /\ HasClassCodes(arry)
        /\ \A p \in Pixels(arry) : ~At(arry, p).mask)
    => /\ SameShape(new_arry, arry)
       /\ \A p \in Pixels(arry) :
             /\ ~At(new_arry, p).mask
             /\ At(new_arry, p).v = Lookup(class_norm._mapping, At(arry, p).v)

\* C3: a band with one valid code has the mapping {code: 0} and normalises
\* to 0 at every valid pixel; a band with no valid entry has the empty
\* mapping, its construction raises nothing and normalising it leaves every
\* entry as it was (masked, with the underlying value np.around gives it).
C3_DegenerateCounts ==
    /\ (Built /\ HasClassCodes(class_band)
           /\ Cardinality(ValidValues(class_band)) = 1)
       => /\ \E code \in ValidValues(class_band) :
                class_norm._mapping = <<[k |-> code, v |-> Whole(0)]>>
          /\ NormalizedSameBand =>
                /\ SameShape(new_arry, arry)
                /\ \A p \in Pixels(arry) :
                      ~At(arry, p).mask => At(new_arry, p) = Cell(Whole(0), FALSE)
    /\ (Built /\ ValidValues(class_band) = {})
       => /\ op \in {"init", "call"} => raised = None
          /\ class_norm._mapping = <<>>
          /\ NormalizedSameBand =>
                /\ SameShape(new_arry, arry)
                /\ \A p \in Pixels(arry) :
                      /\ At(new_arry, p).mask
                      /\ At(new_arry, p).v = RoundHalfEven(At(arry, p).v)

\* C4: a value that occurs only at masked positions of the band is no key of
\* the mapping, and normalising any array leaves every masked position
\* masked with its underlying value not replaced by any position (it is the
\* value np.around gives it), also when that value is a key of the mapping.
C4_MaskedUntouched ==
    /\ Built =>
          \A p \in Pixels(class_band) :
              (At(class_band, p).mask /\ At(class_band, p).v \notin ValidValues(class_band))
              => At(class_band, p).v \notin Keys(class_norm._mapping)
    /\ op = "call" =>
          /\ SameShape(new_arry, arry)
          /\ \A p \in Pixels(arry) :
                At(arry, p).mask =>
                    /\ At(new_arry, p).mask
                    /\ At(new_arry, p).v = RoundHalfEven(At(arry, p).v)

\* an array was normalised that has a masked entry whose underlying value is
\* a key of the mapping with another position, and a masked entry whose
\* underlying value is no key
C4_Witness ==
    /\ op = "call"
    /\ \E p \in Pixels(arry) :
          /\ At(arry, p).mask
          /\ At(arry, p).v \in Keys(class_norm._mapping)
          /\ Lookup(class_norm._mapping, At(arry, p).v) # At(arry, p).v
          /\ At(new_arry, p) = At(arry, p)
    /\ \E p \in Pixels(class_band) :
          /\ At(class_band, p).mask
          /\ At(class_band, p).v \notin Keys(class_norm._mapping)

\* C5: for a band with non-integer values the keys of the mapping are the
\* distinct rounded integers, and normalising the band gives every valid
\* pixel the position of its rounded value.
C5_KeysAreRounded ==
    (Built /\ ~HasClassCodes(class_band))
    => /\ Keys(class_norm._mapping) = RoundedCodes(class_band)
       /\ NormalizedSameBand =>
             \A p \in Pixels(arry) :
                 ~At(arry, p).mask =>
                     /\ RoundHalfEven(At(arry, p).v) \in Keys(class_norm._mapping)
                     /\ At(new_arry, p).v =
                            Lookup(class_norm._mapping, RoundHalfEven(At(arry, p).v))

\* the valid entries of the normalised array whose rounded value is no key of
\* the mapping
Unmapped ==
    {p \in Pixels(arry) :
        ~At(arry, p).mask /\ RoundHalfEven(At(arry, p).v) \notin Keys(class_norm._mapping)}

\* C6 as stated: normalising an array with a valid value that is no key of
\* the mapping fails with InvalidInputError.
C6_Original ==
    (op = "call" /\ Unmapped # {}) => raised = "InvalidInputError"

\* C6 as amended: normalising an array with a valid value whose rounded value
\* is no key of the mapping raises nothing; the result has the shape of the
\* array and holds the rounded value at each such entry.
C6_UnmappedPassThrough ==
    (op = "call" /\ Unmapped # {})
    => /\ raised = None
       /\ SameShape(new_arry, arry)
       /\ \A p \in Unmapped :
             At(new_arry, p) = Cell(RoundHalfEven(At(arry, p).v), FALSE)

\* a normaliser built from a band without the code 5 was applied to an array
\* holding 5
C6_Witness ==
    /\ op = "call"
    /\ class_norm._mapping # <<>>
    /\ \E p \in Unmapped : At(arry, p).v = Whole(5) /\ At(new_arry, p).v = Whole(5)

\* the legend entries for the label keys that are keys of the mapping, in the
\* order of the labels
RECURSIVE PresentEntries(_, _)
PresentEntries(mapping, items) ==
    IF items = <<>> THEN <<>>
    ELSE (IF items[1].k \in Keys(mapping)
          THEN <<[color |-> Lookup(mapping, items[1].k), label |-> items[1].label]>>
          ELSE <<>>)
         \o PresentEntries(mapping, Tail(items))

\* C7: with labels supplied, imshow_class_band raises nothing and the legend
\* has one (colour position, label) entry for each label key that is a key of
\* the mapping, in the labels' order, the other label keys being skipped.
C7_LegendSkipsAbsent ==
    (op = "imshow" /\ ~class_labels.none)
    => /\ raised = None
       /\ legend = PresentEntries(class_norm._mapping, class_labels.items)

\* C8: with class_labels None, imshow_class_band completes normally for
\* every band and builds no legend entry; the image it gives ax.imshow is
\* the band itself, with a normaliser whose keys are the valid values of
\* that band, each with a position between 0 and 1; nothing is normalised
\* before the figure is drawn.
C8_NoLabelsNoLegend ==
    (op = "imshow" /\ class_labels.none)
    => /\ raised = None
       /\ legend = <<>>
       /\ arry = class_band
       /\ caller_arry = class_band
       /\ new_arry = None
       /\ Keys(class_norm._mapping) = ValidValues(class_band)
       /\ \A i \in 1..Len(class_norm._mapping) :
             /\ ~Less(class_norm._mapping[i].v, Whole(0))
             /\ ~Less(Whole(1), class_norm._mapping[i].v)
             /\ \A j \in 1..Len(class_norm._mapping) :
                   class_norm._mapping[j].k = class_norm._mapping[i].k => j = i

\* a band with several codes and a masked entry was shown without labels
C8_Witness ==
    /\ op = "imshow"
    /\ class_labels.none
    /\ raised = None
    /\ legend = <<>>
    /\ arry = class_band
    /\ Cardinality(ValidValues(class_band)) >= 2
    /\ \E p \in Pixels(class_band) : At(class_band, p).mask

(***************************************************************************)
(* Properties of the unusable-data-mask decoder.                           *)
(***************************************************************************)
\* bit b of x is set
Bit(x, b) == (x \div Pow2(b)) % 2 = 1

\* the channel each of the bits 2..7 stands for
ChannelOfBit ==
    [b \in 2..7 |->
        CASE b = 2 -> "Blue" [] b = 3 -> "Green" [] b = 4 -> "Red"
          [] b = 5 -> "Red-Edge" [] b = 6 -> "NIR"
          [] b = 7 -> "Coastal Blue/Green I/Yellow"]

RECURSIVE ChannelList(_, _)
\* the comma-joined names of the set bits of x among the bits b..7
ChannelList(x, b) ==
    IF b > 7 THEN ""
    ELSE IF ~Bit(x, b) THEN ChannelList(x, b + 1)
    ELSE IF \E c \in (b + 1)..7 : Bit(x, c)
         THEN ChannelOfBit[b] \o ", " \o ChannelList(x, b + 1)
         ELSE ChannelOfBit[b]

\* the reference labelling of a byte
ReferenceLabel(x) ==
    LET suspect == "missing/suspect " \o ChannelList(x, 2) \o " data"
        anyband == \E b \in 2..7 : Bit(x, b)
    IN  IF x = 0 THEN "clear"
        ELSE IF x = 1 THEN "blackfill"
        ELSE IF Bit(x, 1) /\ anyband THEN "cloud + " \o suspect
        ELSE IF Bit(x, 1) THEN "cloud"
        ELSE suspect

\* C9: for every byte, get_label gives the reference labelling; 2 is
\* 'cloud', 6 is cloud plus the Blue indicator, 254 is cloud plus the six
\* channels in bit order.
C9_LabelIsReference ==
    op = "get_label"
    => /\ label = ReferenceLabel(v)
       /\ v = 2 => label = "cloud"
       /\ v = 6 => label = "cloud + missing/suspect Blue data"
       /\ v = 254 => label = "cloud + missing/suspect Blue, Green, Red, Red-Edge, NIR, Coastal Blue/Green I/Yellow data"

\* the byte 254 was decoded
C9_Witness ==
    /\ op = "get_label"
    /\ v = 254
    /\ label = "cloud + missing/suspect Blue, Green, Red, Red-Edge, NIR, Coastal Blue/Green I/Yellow data"

\* C10: for no byte does get_label return the 8-digit binary rendering;
\* every byte other than 0 and 1 gets at least one of the 'cloud' and
\* 'missing/suspect' parts, and its label is those parts joined.
C10_FallbackUnreachable ==
    op = "get_label"
    => /\ label # format_08b(v)
       /\ v \notin {0, 1} =>
             /\ labels_of(v) # <<>>
             /\ label = join(" + ", labels_of(v))

\* a byte whose only set bit is bit 2 was decoded to a 'missing/suspect' part
C10_Witness ==
    /\ op = "get_label"
    /\ v = 4
    /\ label = "missing/suspect Blue data"

\* C11 as stated: get_label applied to an integer outside 0..255 signals a
\* DomainError and returns no label.
C11_Original ==
    (op = "get_label" /\ v \notin Bytes) => (raised = "DomainError" /\ label = None)

\* C11 as amended: get_label applied to an integer outside 0..255 raises
\* nothing and returns a label: that of the byte formed by its low 8 bits
\* when one of the bits 1..7 is set, else the zero-padded binary rendering
\* of the integer itself.
C11_OutOfRangeLabelled ==
    (op = "get_label" /\ v \notin Bytes)
    => /\ raised = None
       /\ label = IF v % 256 \in {0, 1} THEN format_08b(v)
                  ELSE ReferenceLabel(v % 256)
       /\ v = 256 => label = "100000000"
       /\ v = -1 => label = ReferenceLabel(255)
       /\ v = -256 => label = "-100000000"

\* 256 was decoded to its binary rendering
C11_Witness ==
    /\ op = "get_label"
    /\ v = 256
    /\ label = "100000000"

(***************************************************************************)
(* Properties of get_udm_labels, of the instance and of the arguments.     *)
(***************************************************************************)
\* C12: get_udm_labels returns one entry per distinct value of the band and
\* none for any other value, the entries in ascending order of the value and
\* each label that of get_label for the value.
C12_OneEntryPerValue ==
    op = "get_udm_labels"
    => LET items == udm_labels.items
           present == {At(class_band, p).v : p \in Pixels(class_band)}
       IN  /\ ~udm_labels.none
           /\ Len(items) = Cardinality(present)
           /\ {items[i].k : i \in 1..Len(items)} = present
           /\ \A i \in 1..(Len(items) - 1) : Less(items[i].k, items[i + 1].k)
           /\ \A i \in 1..Len(items) : items[i].label = ReferenceLabel(items[i].k[1])

\* the labels of a band whose first pixel holds its largest value and which
\* holds a value twice
C12_Witness ==
    /\ op = "get_udm_labels"
    /\ test_classified_band # class_band
    /\ Cardinality(Pixels(class_band)) = 3
    /\ At(class_band, <<1, 1>>).v = Whole(5)
    /\ Len(udm_labels.items) = 2
    /\ udm_labels.items[1] = [k |-> Whole(1), label |-> "blackfill"]
    /\ udm_labels.items[2] = [k |-> Whole(5), label |-> "missing/suspect Blue data"]

\* C13: a call of the instance and a read of its mapping property leave the
\* mapping as __init__ built it, whatever array the call is given.
C13_MappingNeverMutated ==
    [][(class_norm # NoInstance /\ op' \in {"call", "mapping"})
          => (class_norm' = class_norm /\ class_norm'._mapping = class_norm._mapping)]_vars

\* the instance was called on another array than its band, one holding a
\* value absent from the mapping, and still has the mapping of its band
C13_Witness ==
    /\ op = "call"
    /\ arry # class_band
    /\ Unmapped # {}
    /\ class_norm._mapping # <<>>
    /\ Keys(class_norm._mapping) = ValidValues(class_band)
    /\ Keys(class_norm._mapping) # ValidValues(arry)

\* C14: after building the mapping from a band, after normalising an array
\* and after get_udm_labels on a band, the caller's array holds the values
\* and the mask it held before the call.
C14_InputsNotMutated ==
    op \in {"init", "call", "imshow", "get_udm_labels"} => caller_arry = arry

\* an array with a non-integral value was normalised: the result differs
\* from it, the array itself is as it was
C14_Witness ==
    /\ op = "call"
    /\ around(arry) # arry
    /\ new_arry # arry
    /\ caller_arry = arry

(***************************************************************************)
(* Properties of percent_clear and ndwi.                                   *)
(***************************************************************************)
\* C15: the value reported as the percentage of clear pixels is 100 times
\* the number of pixels whose clear-band value is nonzero over the number of
\* pixels of the band.
C15_PercentOfClearPixels ==
    op = "percent_clear"
    => LET band == udm2[1]
           clear == {p \in Pixels(band) : At(band, p).v # Whole(0)}
       IN  percent_clear = Rat(100 * Cardinality(clear), Cardinality(Pixels(band)))

\* C16: for green and NIR values of the raster's unsigned type with
\* green + NIR # 0, ndwi is (green - NIR) / (green + NIR) over the integers
\* and lies between -1 and 1.
C16_NdwiIsTrueRatio ==
    (op = "ndwi" /\ green + nir # 0)
    => /\ ndwi = Float(Rat(green - nir, green + nir))
       /\ ~Less(ndwi.val, Whole(-1))
       /\ ~Less(Whole(1), ndwi.val)

(***************************************************************************)
(* No chained replacement.                                                 *)
(***************************************************************************)
RECURSIVE ReplaceFrom(_, _, _, _)
\* the items of a mapping applied to an array from the last to the first,
\* each compared with the rounded input
ReplaceFrom(new, a, items, i) ==
    IF i > Len(items) THEN new
    ELSE SetItems(ReplaceFrom(new, a, items, i + 1), Selected(a, items[i].k),
                  items[i].v)

\* C17: each entry of the normalised array is determined by the rounded
\* value of the input at that position alone: the position of that value
\* when it is a key (as the array's element type stores it), the rounded
\* value otherwise; applying the items in the opposite order gives the same
\* array.
C17_NoChainedReplacement ==
    op = "call"
    => /\ \A p \in Pixels(arry) :
             ~At(arry, p).mask =>
                 LET r == RoundHalfEven(At(arry, p).v)
                 IN  At(new_arry, p).v =
                         IF r \in Keys(class_norm._mapping)
                         THEN Cast(Lookup(class_norm._mapping, r), new_arry.dtype)
                         ELSE r
       /\ new_arry = ReplaceFrom(around(arry), around(arry), class_norm._mapping, 1)

\* the band [[0, 1, 2]] was normalised: the code 2 has the position 1, which
\* is itself a code with the position 1/2, and 2 was not remapped to 1/2
C17_Witness ==
    /\ op = "call"
    /\ arry = class_band
    /\ ValidValues(arry) = {Whole(0), Whole(1), Whole(2)}
    /\ Lookup(class_norm._mapping, Whole(1)) = Rat(1, 2)
    /\ \A p \in Pixels(arry) :
          /\ At(arry, p).v = Whole(2) => At(new_arry, p).v = Whole(1)
          /\ At(arry, p).v = Whole(1) => At(new_arry, p).v = Rat(1, 2)

====
